---- MODULE Spec2Model ----
(***************************************************************************)
(* Model of app.py: an intent matcher.  load_intents rebuilds five module  *)
(* globals (intents, pattern_to_intent, corpus, vectorizer, X) from        *)
(* intents.json; find_intent runs a four-stage cascade over them; chat and *)
(* reload_route are the request handlers that call them.                   *)
(*                                                                         *)
(* A Python str is a sequence of one-character strings.  The alphabet is   *)
(* " ", "(", ".", "A", "a", "b"; "(" and "." occur in rule strings only.   *)
(***************************************************************************)
EXTENDS Integers, Sequences, FiniteSets, TLC

\* ------------------------------------------------------------------ bounds

\* Reload requests served after start-up.
MaxReloads == 1

\* ------------------------------------------------------------ Python str

\* Code point of a character (the order sorted() uses).
Ord(c) ==
    CASE c = " " -> 32
      [] c = "(" -> 40
      [] c = "." -> 46
      [] c = "A" -> 65
      [] c = "a" -> 97
      [] c = "b" -> 98
      [] OTHER -> 0

\* str.lower()
lower(s) == [i \in 1..Len(s) |-> IF s[i] = "A" THEN "a" ELSE s[i]]

RECURSIVE lstrip(_)
lstrip(s) == IF s # <<>> /\ Head(s) = " " THEN lstrip(Tail(s)) ELSE s

RECURSIVE rstrip(_)
rstrip(s) ==
    IF s # <<>> /\ s[Len(s)] = " " THEN rstrip(SubSeq(s, 1, Len(s) - 1)) ELSE s

\* str.strip()
strip(s) == rstrip(lstrip(s))

\* The `in` operator on two str: p occurs in t as a contiguous run.
Contains(p, t) ==
    \E i \in 0..(Len(t) - Len(p)) : SubSeq(t, i + 1, i + Len(p)) = p

\* str.split(): the maximal runs of non-blank characters, in order.
RECURSIVE split(_)
split(s) ==
    LET t == lstrip(s)
        sp == {i \in 1..Len(t) : t[i] = " "}
        n == IF sp = {} THEN Len(t) + 1
             ELSE CHOOSE i \in sp : \A k \in sp : i <= k
    IN IF t = <<>> THEN <<>>
       ELSE <<SubSeq(t, 1, n - 1)>> \o split(SubSeq(t, n, Len(t)))

\* s < t on str: lexicographic by code point.
RECURSIVE StrLess(_, _)
StrLess(s, t) ==
    IF s = <<>> THEN t # <<>>
    ELSE IF t = <<>> THEN FALSE
    ELSE IF Head(s) = Head(t) THEN StrLess(Tail(s), Tail(t))
    ELSE Ord(Head(s)) < Ord(Head(t))

\* sorted() of a set of str.
RECURSIVE sorted(_)
sorted(S) ==
    IF S = {} THEN <<>>
    ELSE LET m == CHOOSE x \in S : \A y \in S \ {x} : StrLess(x, y)
         IN <<m>> \o sorted(S \ {m})

\* " ".join(ts)
RECURSIVE join(_)
join(ts) ==
    IF ts = <<>> THEN <<>>
    ELSE IF Len(ts) = 1 THEN ts[1]
    ELSE ts[1] \o <<" ">> \o join(Tail(ts))

Range(f) == {f[i] : i \in DOMAIN f}

Max2(a, b) == IF a >= b THEN a ELSE b

\* ------------------------------------------------------ re (rule strings)

\* re.compile(pattern, re.IGNORECASE) raises re.error: of the rule strings
\* over this alphabet, those with an unbalanced "(".
CompileFails(pattern) == \E i \in 1..Len(pattern) : pattern[i] = "("

\* _compile_regex: the compiled matcher (<<pattern>>), or None (<<>>).
_compile_regex(pattern) ==
    IF CompileFails(pattern) THEN <<>> ELSE <<pattern>>

\* cre.match(text) in place of cre.search(text): a hit at the start only.
search_at_start(cre, text) ==
    /\ Len(cre) <= Len(text)
    /\ \A k \in 1..Len(cre) :
          \/ cre[k] = "."
          \/ lower(<<cre[k]>>) = lower(<<text[k]>>)

\* cre.search(text) under re.IGNORECASE: a hit anywhere; "." is any character.
search(cre, text) ==
    \E i \in 0..(Len(text) - Len(cre)) :
        \A k \in 1..Len(cre) :
            \/ cre[k] = "."
            \/ lower(<<cre[k]>>) = lower(<<text[i + k]>>)

\* ------------------------------------------------- rapidfuzz (stage 3)

\* A score 100 * n / d is kept exact as <<n, d>>, d > 0.
ScoreGeq(a, b) == a[1] * b[2] >= b[1] * a[2]
ScoreGt(a, b) == a[1] * b[2] > b[1] * a[2]
ScoreMax(a, b) == IF ScoreGeq(a, b) THEN a ELSE b

\* Length of the longest common subsequence.
RECURSIVE lcs(_, _)
lcs(s, t) ==
    IF s = <<>> \/ t = <<>> THEN 0
    ELSE IF Head(s) = Head(t) THEN 1 + lcs(Tail(s), Tail(t))
    ELSE Max2(lcs(Tail(s), t), lcs(s, Tail(t)))

indel_distance(s, t) == Len(s) + Len(t) - 2 * lcs(s, t)

\* 100 - 100 * dist / lensum, and 100 when lensum is 0.
norm_distance(dist, lensum) ==
    IF lensum = 0 THEN <<1, 1>> ELSE <<lensum - dist, lensum>>

\* The three ratios of token_set_ratio, from the joined differences ab and
\* ba and the length of the joined intersection.
token_set_ratios(ab, ba, sect_len) ==
    LET sep == IF sect_len # 0 THEN 1 ELSE 0
        sect_ab_len == sect_len + sep + Len(ab)
        sect_ba_len == sect_len + sep + Len(ba)
        result == norm_distance(indel_distance(ab, ba), sect_ab_len + sect_ba_len)
        sect_ab_ratio == norm_distance(sep + Len(ab), sect_len + sect_ab_len)
        sect_ba_ratio == norm_distance(sep + Len(ba), sect_len + sect_ba_len)
    IN IF sect_len = 0 THEN result
       ELSE ScoreMax(result, ScoreMax(sect_ab_ratio, sect_ba_ratio))

token_set_ratio_sets(tokens_a, tokens_b) ==
    IF tokens_a = {} \/ tokens_b = {} THEN <<0, 1>>
    ELSE IF tokens_a \cap tokens_b # {}
            /\ (tokens_a \subseteq tokens_b \/ tokens_b \subseteq tokens_a)
    THEN <<1, 1>>
    ELSE token_set_ratios(join(sorted(tokens_a \ tokens_b)),
                          join(sorted(tokens_b \ tokens_a)),
                          Len(join(sorted(tokens_a \cap tokens_b))))

\* fuzz.token_set_ratio(s1, s2), no processor (rapidfuzz 3).
token_set_ratio(s1, s2) ==
    token_set_ratio_sets(Range(split(s1)), Range(split(s2)))

\* process.extractOne(text, choices, scorer=fuzz.token_set_ratio): the
\* 0-based index of the best score, the first one on a tie.
extractOne(text, choices) ==
    CHOOSE i \in 0..(Len(choices) - 1) :
        \A k \in 0..(Len(choices) - 1) :
            LET si == token_set_ratio(text, choices[i + 1])
                sk == token_set_ratio(text, choices[k + 1])
            IN IF k < i THEN ScoreGt(si, sk) ELSE ScoreGeq(si, sk)

\* --------------------------------------------------- sklearn (stage 4)

\* The analyzer of TfidfVectorizer(ngram_range=(1, 2)): lower-case, the
\* tokens of two or more word characters, then their 1-grams and 2-grams.
tokenize(doc) == SelectSeq(split(lower(doc)), LAMBDA t : Len(t) >= 2)

ngrams(doc) ==
    LET t == tokenize(doc)
    IN IF Len(t) < 2 THEN t
       ELSE t \o [i \in 1..(Len(t) - 1) |-> t[i] \o <<" ">> \o t[i + 1]]

\* vocabulary_: the features of the corpus, sorted.
vocabulary(docs) == sorted(UNION {Range(ngrams(docs[i])) : i \in DOMAIN docs})

\* Term frequency of feature f in doc; document frequency of f in docs.
tf(f, doc) == Cardinality({i \in DOMAIN ngrams(doc) : ngrams(doc)[i] = f})
df(f, docs) == Cardinality({i \in DOMAIN docs : f \in Range(ngrams(docs[i]))})

\* smooth idf, ln((1 + n) / (1 + d)) + 1, in eighths (rounded).
Idf(n, d) ==
    CASE n = d -> 8
      [] <<n, d>> = <<2, 1>> -> 11
      [] <<n, d>> = <<3, 1>> -> 14
      [] <<n, d>> = <<3, 2>> -> 10
      [] <<n, d>> = <<4, 1>> -> 15
      [] <<n, d>> = <<4, 2>> -> 12
      [] <<n, d>> = <<4, 3>> -> 10
      [] <<n, d>> = <<5, 1>> -> 17
      [] <<n, d>> = <<5, 2>> -> 14
      [] <<n, d>> = <<5, 3>> -> 11
      [] <<n, d>> = <<5, 4>> -> 9

\* TfidfVectorizer(ngram_range=(1, 2)), not fitted.
TfidfVectorizer == [fitted |-> FALSE, vocabulary_ |-> <<>>, idf_ |-> <<>>]

\* The vectorizer after fit(docs).
fit(docs) ==
    LET v == vocabulary(docs)
    IN [fitted |-> TRUE, vocabulary_ |-> v,
        idf_ |-> [k \in 1..Len(v) |-> Idf(Len(docs), df(v[k], docs))]]

\* One row of vec.transform: tf * idf per feature.  Rows are left
\* un-normalised; cosine_similarity normalises both sides itself.
transform_row(vec, doc) ==
    [k \in 1..Len(vec.vocabulary_) |-> tf(vec.vocabulary_[k], doc) * vec.idf_[k]]

\* X: None, or the matrix of the rows of docs.
None_X == [is_none |-> TRUE, rows |-> <<>>, ncols |-> 0]

transform(vec, docs) ==
    [is_none |-> FALSE,
     rows |-> [i \in DOMAIN docs |-> transform_row(vec, docs[i])],
     ncols |-> Len(vec.vocabulary_)]

RECURSIVE Dot(_, _)
Dot(u, v) ==
    IF u = <<>> \/ v = <<>> THEN 0 ELSE Head(u) * Head(v) + Dot(Tail(u), Tail(v))

\* cosine_similarity(q, X)[0][i]^2 * |q|^2, exact as <<n, d>>; 0 for a
\* zero row or a zero query.
sim2(q, row) ==
    IF Dot(q, q) = 0 \/ Dot(row, row) = 0 THEN <<0, 1>>
    ELSE <<Dot(q, row) * Dot(q, row), Dot(row, row)>>

\* sims.argmax(): the 0-based index of the first maximum.
argmax(q, rows) ==
    CHOOSE i \in 0..(Len(rows) - 1) :
        \A k \in 0..(Len(rows) - 1) :
            IF k < i THEN ScoreGt(sim2(q, rows[i + 1]), sim2(q, rows[k + 1]))
            ELSE ScoreGeq(sim2(q, rows[i + 1]), sim2(q, rows[k + 1]))

\* float(sims[i]) >= threshold, threshold = thr[1] / thr[2] >= 0.
SimGeq(q, row, thr) ==
    LET s == sim2(q, row)
    IN s[1] * thr[2] * thr[2] >= thr[1] * thr[1] * s[2] * Dot(q, q)

\* ------------------------------------------------------- intents.json

\* An entry of a "patterns" list: a str, or something else (a number).
Str(s) == [is_str |-> TRUE, v |-> s]
NonStr == [is_str |-> FALSE, v |-> <<>>]

\* An element of the intents list.  A dict carries "intent", "patterns"
\* (absent, null or a list), "regex" (absent, a str or a list of str; kept
\* as a sequence of rule strings) and "response"; _regex and _regex_list are
\* the keys load_intents adds: _regex is <<>> (absent or None) or <<cre>>.
Dict(name, pk, pats, rk, rgx, resp) ==
    [is_dict |-> TRUE, intent |-> name, patterns_kind |-> pk, patterns |-> pats,
     regex_kind |-> rk, regex |-> rgx, response |-> resp,
     _regex |-> <<>>, _regex_list |-> <<>>]

\* An element that is no dict (a number, or a key of a top-level dict).
NotADict ==
    [is_dict |-> FALSE, intent |-> "None", patterns_kind |-> "absent",
     patterns |-> <<>>, regex_kind |-> "absent", regex |-> <<>>,
     response |-> "", _regex |-> <<>>, _regex_list |-> <<>>]

\* A decoded JSON value that can be bound to `intents`: a list of elements,
\* or a dict (iterating it gives its keys).
List(items) == [shape |-> "list", items |-> items]
KeysOf(items) == [shape |-> "dict", items |-> items]

s_ab == <<"a", "b">>
s_Ab == <<"A", "b">>
s_ba == <<"b", "a">>
s_bb == <<"b", "b">>
s_a == <<"a">>
s_a_a == <<"a", " ", "a">>
s_a_b == <<"a", " ", "b">>
s_bba == <<"b", "b", "a">>
s_ab_ba == <<"a", "b", " ", "b", "a">>
s_aa_ab == <<"a", "a", " ", "a", "b">>
s_ba_aa == <<"b", "a", " ", "a", "a">>
s_aa_ba == <<"a", "a", " ", "b", "a">>
s_ab_bb == <<"a", "b", " ", "b", "b">>
s_lparen == <<"(">>
s_sp_Ab == <<" ", "A", "b">>

\* Contents of intents.json.  readable = FALSE: open or json.load raises.
\* has_intents_key: the top level is an object with the key "intents", and
\* value is what that key holds; otherwise value is the top level itself.
File(obj, v) == [readable |-> TRUE, has_intents_key |-> obj, value |-> v]

\* Two intents with overlapping patterns and overlapping rules, a rule list
\* with a rule that does not compile, a non-str pattern.
FileGreet ==
    File(FALSE, List(<<
        Dict("greet", "list", <<Str(s_Ab)>>, "str", <<s_bb>>, "hello"),
        Dict("book", "list", <<Str(s_ab_ba), NonStr>>, "list",
             <<s_lparen, s_ba>>, "booked")>>))

\* The object form; a duplicate intent name; a single rule that does not
\* compile; a pattern without any token of two characters.
FileDup ==
    File(TRUE, List(<<
        Dict("x", "list", <<Str(s_aa_ab)>>, "str", <<s_lparen>>, "first x"),
        Dict("y", "list", <<NonStr, Str(s_a_a)>>, "absent", <<>>, "the y"),
        Dict("x", "list", <<Str(s_ba_aa)>>, "absent", <<>>, "second x")>>))

\* No intent has a str pattern; one has a rule.
FileRulesOnly ==
    File(FALSE, List(<<
        Dict("r", "absent", <<>>, "str", <<s_a>>, "ruled"),
        Dict("n", "list", <<NonStr>>, "absent", <<>>, "never")>>))

\* An empty-string pattern.
FileEmptyPattern ==
    File(FALSE, List(<<
        Dict("e", "list", <<Str(<<>>), Str(s_ab)>>, "absent", <<>>, "empty")>>))

\* No str pattern, and a rule that matches the empty string.
FileEmptyRule ==
    File(FALSE, List(<<
        Dict("z", "absent", <<>>, "str", <<<<>>>>, "anything")>>))

FileUnreadable == [readable |-> FALSE, has_intents_key |-> FALSE, value |-> List(<<>>)]

\* {"foo": ...}: an object without the key "intents".
FileNoKey == File(FALSE, KeysOf(<<NotADict>>))

\* A list whose second element is a number.
FileBadElement ==
    File(FALSE, List(<<
        Dict("greet", "list", <<Str(s_ba)>>, "str", <<s_a>>, "hi again"),
        NotADict>>))

\* "patterns": null in the second intent.
FileNullPatterns ==
    File(FALSE, List(<<
        Dict("p", "list", <<Str(s_bb)>>, "absent", <<>>, "the p"),
        Dict("q", "null", <<>>, "absent", <<>>, "the q")>>))

\* The only pattern has no token of two characters: fit_transform raises
\* ValueError (empty vocabulary).
FileNoVocabulary ==
    File(FALSE, List(<<
        Dict("s", "list", <<Str(s_a)>>, "absent", <<>>, "short")>>))

Files ==
    {FileGreet, FileDup, FileRulesOnly, FileEmptyPattern, FileEmptyRule,
     FileUnreadable,
     FileNoKey, FileBadElement, FileNullPatterns, FileNoVocabulary}

\* ------------------------------------------------ load_intents, by parts

\* compile_list that gives up at the first rule that does not compile.
RECURSIVE compile_list_stops_at_bad(_)
compile_list_stops_at_bad(rgx) ==
    IF rgx = <<>> \/ CompileFails(Head(rgx)) THEN <<>>
    ELSE <<Head(rgx)>> \o compile_list_stops_at_bad(Tail(rgx))

\* [r for r in (_compile_regex(p) for p in rgx) if r is not None]
RECURSIVE compile_list(_)
compile_list(rgx) ==
    IF rgx = <<>> THEN <<>>
    ELSE _compile_regex(Head(rgx)) \o compile_list(Tail(rgx))

\* One pass of the loop body of lines 49-56 on the dict `it`.
compile_intent(it) ==
    CASE it.regex_kind = "str" ->
            [it EXCEPT !._regex = _compile_regex(it.regex[1])]
      [] it.regex_kind = "list" ->
            [it EXCEPT !._regex_list = compile_list(it.regex)]
      [] OTHER -> [it EXCEPT !._regex = <<>>]

\* The str entries of it.get("patterns", []), in order.
RECURSIVE str_patterns(_)
str_patterns(pats) ==
    IF pats = <<>> THEN <<>>
    ELSE (IF Head(pats).is_str THEN <<Head(pats).v>> ELSE <<>>)
         \o str_patterns(Tail(pats))

\* The outcome of the start-up load (line 76) on a file: the five globals
\* after load_intents returns, or ok = FALSE when it raises (the import of
\* the module fails and there is no process).
RECURSIVE flat_patterns(_)
flat_patterns(items) ==
    IF items = <<>> THEN <<>>
    ELSE [k \in DOMAIN str_patterns(Head(items).patterns) |->
             [p |-> str_patterns(Head(items).patterns)[k],
              intent |-> Head(items).intent]]
         \o flat_patterns(Tail(items))

Loaded(file) ==
    LET items == file.value.items
        flat == flat_patterns(items)
        docs == [k \in DOMAIN flat |-> lower(flat[k].p)]
        raises ==
            \/ ~file.readable
            \/ \E i \in DOMAIN items :
                   ~items[i].is_dict \/ items[i].patterns_kind = "null"
            \/ docs # <<>> /\ vocabulary(docs) = <<>>
    IN IF raises
       THEN [ok |-> FALSE, intents |-> List(<<>>), pattern_to_intent |-> <<>>,
             corpus |-> <<>>, vectorizer |-> TfidfVectorizer, X |-> None_X]
       ELSE [ok |-> TRUE,
             intents |-> [file.value EXCEPT
                            !.items = [i \in DOMAIN items |-> compile_intent(items[i])]],
             pattern_to_intent |-> [k \in DOMAIN flat |-> flat[k].intent],
             corpus |-> docs,
             vectorizer |-> IF docs = <<>> THEN TfidfVectorizer ELSE fit(docs),
             X |-> IF docs = <<>> THEN None_X ELSE transform(fit(docs), docs)]

\* ------------------------------------------------- find_intent, by stage

\* What a stage ends in: an index found, nothing found, or an exception.
Hit(i) == [kind |-> "hit", i |-> i]
Miss == [kind |-> "miss", i |-> 0]
Raise == [kind |-> "raise", i |-> 0]

\* normalize without the strip().
normalize_no_strip(user_text) ==
    lower(IF user_text.is_none THEN <<>> ELSE user_text.v)

\* text = (user_text or "").lower().strip()
normalize(user_text) ==
    strip(lower(IF user_text.is_none THEN <<>> ELSE user_text.v))

\* substring_match with `p.lower() == text` in place of `p.lower() in text`.
RECURSIVE substring_match_exact(_, _, _)
substring_match_exact(items, text, i) ==
    IF i > Len(items) THEN Miss
    ELSE IF ~items[i].is_dict \/ items[i].patterns_kind = "null" THEN Raise
    ELSE IF \E k \in DOMAIN items[i].patterns :
                /\ items[i].patterns[k].is_str
                /\ lower(items[i].patterns[k].v) = text
         THEN Hit(i)
    ELSE substring_match_exact(items, text, i + 1)

\* substring_match with `p in text` in place of `p.lower() in text`.
RECURSIVE substring_match_case_sensitive(_, _, _)
substring_match_case_sensitive(items, text, i) ==
    IF i > Len(items) THEN Miss
    ELSE IF ~items[i].is_dict \/ items[i].patterns_kind = "null" THEN Raise
    ELSE IF \E k \in DOMAIN items[i].patterns :
                /\ items[i].patterns[k].is_str
                /\ Contains(items[i].patterns[k].v, text)
         THEN Hit(i)
    ELSE substring_match_case_sensitive(items, text, i + 1)

\* Lines 84-87: the first intent, in order, with a str pattern whose lower
\* case occurs in text.  it.get on a non-dict raises AttributeError;
\* iterating "patterns": null raises TypeError.
RECURSIVE substring_match(_, _, _)
substring_match(items, text, i) ==
    IF i > Len(items) THEN Miss
    ELSE IF ~items[i].is_dict \/ items[i].patterns_kind = "null" THEN Raise
    ELSE IF \E k \in DOMAIN items[i].patterns :
                /\ items[i].patterns[k].is_str
                /\ Contains(lower(items[i].patterns[k].v), text)
         THEN Hit(i)
    ELSE substring_match(items, text, i + 1)

\* rule_hit that tries _regex only and never _regex_list.
rule_hit_single_only(it, text) ==
    it._regex # <<>> /\ search(it._regex[1], text)

\* Lines 92-98 for one intent: _regex, then each of _regex_list.
rule_hit(it, text) ==
    \/ it._regex # <<>> /\ search(it._regex[1], text)
    \/ \E k \in DOMAIN it._regex_list : search(it._regex_list[k], text)

\* Lines 90-98: the first intent, in order, one of whose rules hits.
RECURSIVE regex_match(_, _, _)
regex_match(items, text, i) ==
    IF i > Len(items) THEN Miss
    ELSE IF ~items[i].is_dict THEN Raise
    ELSE IF rule_hit(items[i], text) THEN Hit(i)
    ELSE regex_match(items, text, i + 1)

\* Line 101: the str patterns of all intents, as stored (not lower-cased).
RECURSIVE all_patterns(_)
all_patterns(items) ==
    IF items = <<>> THEN <<>>
    ELSE str_patterns(Head(items).patterns) \o all_patterns(Tail(items))

\* fuzzy_match with `score > fuzzy_threshold` at line 106.
fuzzy_match_strict(items, text, fuzzy_threshold) ==
    LET pats == all_patterns(items)
        idx == extractOne(text, pats)
        score == token_set_ratio(text, pats[idx + 1])
    IN IF \E i \in DOMAIN items :
              ~items[i].is_dict \/ items[i].patterns_kind = "null"
       THEN Raise
       ELSE IF pats = <<>> THEN Miss
       ELSE IF 100 * score[1] > fuzzy_threshold * score[2] THEN Hit(idx)
       ELSE Miss

\* Lines 101-106: Hit(idx) when the best score reaches fuzzy_threshold.
fuzzy_match(items, text, fuzzy_threshold) ==
    LET pats == all_patterns(items)
        idx == extractOne(text, pats)
        score == token_set_ratio(text, pats[idx + 1])
    IN IF \E i \in DOMAIN items :
              ~items[i].is_dict \/ items[i].patterns_kind = "null"
       THEN Raise
       ELSE IF pats = <<>> THEN Miss
       ELSE IF 100 * score[1] >= fuzzy_threshold * score[2] THEN Hit(idx)
       ELSE Miss

\* named that keeps the last intent with the name, not the first.
named_last(items, intent_name, i) ==
    IF \E k \in i..Len(items) : ~items[k].is_dict THEN Raise
    ELSE IF \E k \in i..Len(items) : items[k].intent = intent_name
    THEN Hit(CHOOSE k \in i..Len(items) :
                 /\ items[k].intent = intent_name
                 /\ \A h \in i..Len(items) :
                       items[h].intent = intent_name => h <= k)
    ELSE Miss

\* Lines 109-111 and 121-123: the first intent, in order, named intent_name.
RECURSIVE named(_, _, _)
named(items, intent_name, i) ==
    IF i > Len(items) THEN Miss
    ELSE IF ~items[i].is_dict THEN Raise
    ELSE IF items[i].intent = intent_name THEN Hit(i)
    ELSE named(items, intent_name, i + 1)

\* Lines 107-111 and 120-123: pattern_to_intent[idx] (IndexError past the
\* end), then the look-up by name.
resolve(items, p2i, idx) ==
    IF idx + 1 > Len(p2i) THEN Raise ELSE named(items, p2i[idx + 1], 1)

\* tfidf_match without the `X is not None` test of line 114.
tfidf_match_no_none_check(vec, x, text, tfidf_threshold) ==
    LET q == transform_row(vec, text)
        best_idx == argmax(q, x.rows)
    IN IF ~vec.fitted \/ Len(vec.vocabulary_) # x.ncols THEN Raise
       ELSE IF SimGeq(q, x.rows[best_idx + 1], tfidf_threshold) THEN Hit(best_idx)
       ELSE Miss

\* Lines 114-119: skipped when X is None; transform raises NotFittedError
\* on a vectorizer that was not fitted and cosine_similarity raises
\* ValueError when the widths differ; Hit(best_idx) when the best
\* similarity reaches tfidf_threshold.
tfidf_match(vec, x, text, tfidf_threshold) ==
    LET q == transform_row(vec, text)
        best_idx == argmax(q, x.rows)
    IN IF x.is_none THEN Miss
       ELSE IF ~vec.fitted \/ Len(vec.vocabulary_) # x.ncols THEN Raise
       ELSE IF SimGeq(q, x.rows[best_idx + 1], tfidf_threshold) THEN Hit(best_idx)
       ELSE Miss

\* ------------------------------------------------------------ the state

VARIABLES
    intents,            \* line 16: the bound list (or other JSON value)
    pattern_to_intent,  \* line 17: owner name per corpus index
    corpus,             \* line 18: lower-cased str patterns
    vectorizer,         \* line 19
    X,                  \* line 20: None_X or the TF-IDF matrix
    gen,                \* per global, the number of the load that last bound it
    nloads,             \* reloads requested so far (the start-up load is 0)
    load,               \* the thread in reload_route / load_intents: its
                        \* place, the decoded file `raw`, the loop indices,
                        \* and whether raw is what the last successful
                        \* load had read
    reload_response,    \* what the last finished reload_route answered
    q                   \* the thread in chat / find_intent

vars ==
    <<intents, pattern_to_intent, corpus, vectorizer, X, gen, nloads, load,
      reload_response, q>>

\* user_text: None or a str.
NoneText == [is_none |-> TRUE, v |-> <<>>]
Text(s) == [is_none |-> FALSE, v |-> s]

UserTexts ==
    {NoneText, Text(<<>>), Text(<<" ">>), Text(s_sp_Ab), Text(s_ab), Text(s_ab_ba),
     Text(s_bb), Text(s_bba), Text(s_ba), Text(s_a_b), Text(s_ab_bb),
     Text(s_aa_ba)}

\* The defaults of line 78 (0.35 = 7/20), and another pair of arguments.
DefaultThresholds == [fuzzy_threshold |-> 70, tfidf_threshold |-> <<7, 20>>]
Thresholds ==
    {DefaultThresholds, [fuzzy_threshold |-> 100, tfidf_threshold |-> <<0, 1>>]}

\* The value find_intent ends in: an intent dict (returned by `stage`),
\* None (stage 0: line 81; stage 5: line 125), or an exception.
Pending == [kind |-> "pending", it |-> NotADict, stage |-> 0]
ReturnIntent(it, stage) == [kind |-> "intent", it |-> it, stage |-> stage]
ReturnNone(stage) == [kind |-> "none", it |-> NotADict, stage |-> stage]
Raised(stage) == [kind |-> "raise", it |-> NotADict, stage |-> stage]

IdleQuery ==
    [pc |-> "idle", user_text |-> NoneText, fuzzy_threshold |-> 70,
     tfidf_threshold |-> <<7, 20>>, text |-> <<>>, idx |-> 0,
     result |-> Pending, stages |-> {}, reads |-> {}, store_ok |-> TRUE]

Init ==
    \E f \in Files :
        /\ Loaded(f).ok
        /\ intents = Loaded(f).intents
        /\ pattern_to_intent = Loaded(f).pattern_to_intent
        /\ corpus = Loaded(f).corpus
        /\ vectorizer = Loaded(f).vectorizer
        /\ X = Loaded(f).X
        /\ gen = [intents |-> 0, pattern_to_intent |-> 0, corpus |-> 0,
                  vectorizer |-> 0, X |-> 0]
        /\ nloads = 0
        /\ load = [pc |-> "idle", raw |-> f, i |-> 1, j |-> 1, same |-> FALSE]
        /\ reload_response = "none"
        /\ q = IdleQuery

\* ------------------------------------------- reload_route / load_intents

\* Line 137-138: a POST /reload arrives and load_intents() is called.
reload_route_call ==
    /\ load.pc = "idle"
    /\ nloads < MaxReloads
    /\ nloads' = nloads + 1
    /\ load' = [load EXCEPT !.pc = "open"]
    /\ UNCHANGED <<intents, pattern_to_intent, corpus, vectorizer, X, gen,
                   reload_response, q>>

\* Lines 37-45: open and decode intents.json, bind `intents`.
load_open ==
    /\ load.pc = "open"
    /\ \E f \in Files :
          IF ~f.readable
          THEN /\ load' = [load EXCEPT !.pc = "raised", !.raw = f, !.same = FALSE]
               /\ UNCHANGED <<intents, gen>>
          ELSE /\ intents' = f.value
               /\ gen' = [gen EXCEPT !.intents = nloads]
               /\ load' = [pc |-> "compile", raw |-> f, i |-> 1, j |-> 1,
                           same |-> (f = load.raw /\ reload_response # "error")]
    /\ UNCHANGED <<pattern_to_intent, corpus, vectorizer, X, nloads,
                   reload_response, q>>

\* Lines 48-56, one iteration: compile the rules of intents[i] in place.
load_compile ==
    /\ load.pc = "compile"
    /\ IF load.i > Len(intents.items)
       THEN /\ load' = [load EXCEPT !.pc = "reset_p2i"]
            /\ UNCHANGED intents
       ELSE IF ~intents.items[load.i].is_dict
       THEN /\ load' = [load EXCEPT !.pc = "raised"]
            /\ UNCHANGED intents
       ELSE /\ intents' = [intents EXCEPT
                             !.items[load.i] = compile_intent(intents.items[load.i])]
            /\ load' = [load EXCEPT !.i = load.i + 1]
    /\ UNCHANGED <<pattern_to_intent, corpus, vectorizer, X, gen, nloads,
                   reload_response, q>>

\* Line 59.
load_reset_p2i ==
    /\ load.pc = "reset_p2i"
    /\ pattern_to_intent' = <<>>
    /\ gen' = [gen EXCEPT !.pattern_to_intent = nloads]
    /\ load' = [load EXCEPT !.pc = "reset_corpus"]
    /\ UNCHANGED <<intents, corpus, vectorizer, X, nloads, reload_response, q>>

\* load_intents without line 60: corpus keeps what it held.
load_keep_corpus ==
    /\ load.pc = "reset_corpus"
    /\ gen' = [gen EXCEPT !.corpus = nloads]
    /\ load' = [load EXCEPT !.pc = "corpus", !.i = 1, !.j = 1]
    /\ UNCHANGED <<intents, pattern_to_intent, corpus, vectorizer, X, nloads,
                   reload_response, q>>

\* Line 60.
load_reset_corpus ==
    /\ load.pc = "reset_corpus"
    /\ corpus' = <<>>
    /\ gen' = [gen EXCEPT !.corpus = nloads]
    /\ load' = [load EXCEPT !.pc = "corpus", !.i = 1, !.j = 1]
    /\ UNCHANGED <<intents, pattern_to_intent, vectorizer, X, nloads,
                   reload_response, q>>

\* Lines 61-65: advance to pattern j of intent i; a str is appended to
\* corpus (line 65), anything else is skipped (line 64).
load_corpus ==
    /\ load.pc = "corpus"
    /\ IF load.i > Len(intents.items)
       THEN /\ load' = [load EXCEPT !.pc = "vectorizer"]
            /\ UNCHANGED corpus
       ELSE LET it == intents.items[load.i]
            IN IF ~it.is_dict \/ it.patterns_kind = "null"
               THEN /\ load' = [load EXCEPT !.pc = "raised"]
                    /\ UNCHANGED corpus
               ELSE IF load.j > Len(it.patterns)
               THEN /\ load' = [load EXCEPT !.i = load.i + 1, !.j = 1]
                    /\ UNCHANGED corpus
               ELSE IF ~it.patterns[load.j].is_str
               THEN /\ load' = [load EXCEPT !.j = load.j + 1]
                    /\ UNCHANGED corpus
               ELSE /\ corpus' = Append(corpus, lower(it.patterns[load.j].v))
                    /\ load' = [load EXCEPT !.pc = "append_p2i"]
    /\ UNCHANGED <<intents, pattern_to_intent, vectorizer, X, gen, nloads,
                   reload_response, q>>

\* Line 66.
load_append_p2i ==
    /\ load.pc = "append_p2i"
    /\ pattern_to_intent' =
           Append(pattern_to_intent, intents.items[load.i].intent)
    /\ load' = [load EXCEPT !.pc = "corpus", !.j = load.j + 1]
    /\ UNCHANGED <<intents, corpus, vectorizer, X, gen, nloads,
                   reload_response, q>>

\* Line 69.
load_vectorizer ==
    /\ load.pc = "vectorizer"
    /\ vectorizer' = TfidfVectorizer
    /\ gen' = [gen EXCEPT !.vectorizer = nloads]
    /\ load' = [load EXCEPT !.pc = "fit"]
    /\ UNCHANGED <<intents, pattern_to_intent, corpus, X, nloads,
                   reload_response, q>>

\* Lines 70-71, the call: fit_transform fits the vectorizer in place, or
\* raises ValueError on an empty vocabulary.  Lines 72-73: X = None.
load_fit ==
    /\ load.pc = "fit"
    /\ IF corpus = <<>>
       THEN /\ X' = None_X
            /\ gen' = [gen EXCEPT !.X = nloads]
            /\ load' = [load EXCEPT !.pc = "returned"]
            /\ UNCHANGED vectorizer
       ELSE IF vocabulary(corpus) = <<>>
       THEN /\ load' = [load EXCEPT !.pc = "raised"]
            /\ UNCHANGED <<vectorizer, X, gen>>
       ELSE /\ vectorizer' = fit(corpus)
            /\ load' = [load EXCEPT !.pc = "assign_X"]
            /\ UNCHANGED <<X, gen>>
    /\ UNCHANGED <<intents, pattern_to_intent, corpus, nloads,
                   reload_response, q>>

\* Line 71, the assignment of the matrix fit_transform returned.
load_assign_X ==
    /\ load.pc = "assign_X"
    /\ X' = transform(vectorizer, corpus)
    /\ gen' = [gen EXCEPT !.X = nloads]
    /\ load' = [load EXCEPT !.pc = "returned"]
    /\ UNCHANGED <<intents, pattern_to_intent, corpus, vectorizer, nloads,
                   reload_response, q>>

\* reload_route with the exception swallowed: {"ok": true} whatever happened.
reload_route_return_always_ok ==
    /\ load.pc \in {"returned", "raised"}
    /\ reload_response' = "ok"
    /\ load' = [load EXCEPT !.pc = "idle", !.i = 1, !.j = 1]
    /\ UNCHANGED <<intents, pattern_to_intent, corpus, vectorizer, X, gen,
                   nloads, q>>

\* Line 139 after load_intents returned: {"ok": true}.  When load_intents
\* raised, line 139 is not reached and the request ends as a server error.
reload_route_return ==
    /\ load.pc \in {"returned", "raised"}
    /\ reload_response' = IF load.pc = "returned" THEN "ok" ELSE "error"
    /\ load' = [load EXCEPT !.pc = "idle", !.i = 1, !.j = 1]
    /\ UNCHANGED <<intents, pattern_to_intent, corpus, vectorizer, X, gen,
                   nloads, q>>

\* ---------------------------------------------------- chat / find_intent

\* find_intent ends with `result`.
Finish(result, stage, read) ==
    [q EXCEPT !.pc = "done", !.result = result,
              !.stages = @ \cup {stage}, !.reads = @ \cup read]

\* find_intent goes on to `pc`.
Goto(pc, stage, read) ==
    [q EXCEPT !.pc = pc, !.stages = @ \cup {stage}, !.reads = @ \cup read]

\* Lines 78-81: find_intent is called (by chat, line 131, with the default
\* thresholds); the text is normalised and an empty one returns None.
find_intent_call ==
    /\ q.pc = "idle"
    /\ \E u \in UserTexts, t \in Thresholds :
          q' = [IdleQuery EXCEPT
                  !.pc = IF normalize(u) = <<>> THEN "done" ELSE "stage1",
                  !.user_text = u,
                  !.fuzzy_threshold = t.fuzzy_threshold,
                  !.tfidf_threshold = t.tfidf_threshold,
                  !.text = normalize(u),
                  !.result = IF normalize(u) = <<>> THEN ReturnNone(0) ELSE Pending,
                  !.store_ok = (reload_response # "error")]
    /\ UNCHANGED <<intents, pattern_to_intent, corpus, vectorizer, X, gen,
                   nloads, load, reload_response>>

\* stage1 without the `return it`: a hit goes on to stage 2.
stage1_falls_through ==
    /\ q.pc = "stage1"
    /\ LET o == substring_match(intents.items, q.text, 1)
       IN q' = CASE o.kind = "raise" -> Finish(Raised(1), 1, {gen.intents})
                 [] OTHER -> Goto("stage2", 1, {gen.intents})
    /\ UNCHANGED <<intents, pattern_to_intent, corpus, vectorizer, X, gen,
                   nloads, load, reload_response>>

\* Lines 83-87.
stage1 ==
    /\ q.pc = "stage1"
    /\ LET o == substring_match(intents.items, q.text, 1)
       IN q' = CASE o.kind = "hit" ->
                      Finish(ReturnIntent(intents.items[o.i], 1), 1, {gen.intents})
                 [] o.kind = "raise" -> Finish(Raised(1), 1, {gen.intents})
                 [] OTHER -> Goto("stage2", 1, {gen.intents})
    /\ UNCHANGED <<intents, pattern_to_intent, corpus, vectorizer, X, gen,
                   nloads, load, reload_response>>

\* Lines 89-98.
stage2 ==
    /\ q.pc = "stage2"
    /\ LET o == regex_match(intents.items, q.text, 1)
       IN q' = CASE o.kind = "hit" ->
                      Finish(ReturnIntent(intents.items[o.i], 2), 2, {gen.intents})
                 [] o.kind = "raise" -> Finish(Raised(2), 2, {gen.intents})
                 [] OTHER -> Goto("stage3", 2, {gen.intents})
    /\ UNCHANGED <<intents, pattern_to_intent, corpus, vectorizer, X, gen,
                   nloads, load, reload_response>>

\* stage3 that keeps its pattern list in `corpus` for the next call.
stage3_caching ==
    /\ q.pc = "stage3"
    /\ LET o == fuzzy_match(intents.items, q.text, q.fuzzy_threshold)
       IN q' = CASE o.kind = "hit" ->
                      [Goto("stage3_resolve", 3, {gen.intents}) EXCEPT !.idx = o.i]
                 [] o.kind = "raise" -> Finish(Raised(3), 3, {gen.intents})
                 [] OTHER -> Goto("stage4", 3, {gen.intents})
    /\ corpus' = IF \A i \in DOMAIN intents.items :
                        intents.items[i].is_dict
                        /\ intents.items[i].patterns_kind # "null"
                 THEN all_patterns(intents.items)
                 ELSE corpus
    /\ UNCHANGED <<intents, pattern_to_intent, vectorizer, X, gen,
                   nloads, load, reload_response>>

\* Lines 100-106: the best fuzzy match and its index.
stage3 ==
    /\ q.pc = "stage3"
    /\ LET o == fuzzy_match(intents.items, q.text, q.fuzzy_threshold)
       IN q' = CASE o.kind = "hit" ->
                      [Goto("stage3_resolve", 3, {gen.intents}) EXCEPT !.idx = o.i]
                 [] o.kind = "raise" -> Finish(Raised(3), 3, {gen.intents})
                 [] OTHER -> Goto("stage4", 3, {gen.intents})
    /\ UNCHANGED <<intents, pattern_to_intent, corpus, vectorizer, X, gen,
                   nloads, load, reload_response>>

\* Lines 107-111: from the index to the owner name to the intent.
stage3_resolve ==
    /\ q.pc = "stage3_resolve"
    /\ LET o == resolve(intents.items, pattern_to_intent, q.idx)
           read == {gen.pattern_to_intent, gen.intents}
       IN q' = CASE o.kind = "hit" ->
                      Finish(ReturnIntent(intents.items[o.i], 3), 3, read)
                 [] o.kind = "raise" -> Finish(Raised(3), 3, read)
                 [] OTHER -> Goto("stage4", 3, read)
    /\ UNCHANGED <<intents, pattern_to_intent, corpus, vectorizer, X, gen,
                   nloads, load, reload_response>>

\* Lines 113-119: the best cosine similarity and its index; line 125 when
\* the stage is skipped or the similarity is below the threshold.
stage4 ==
    /\ q.pc = "stage4"
    /\ LET o == tfidf_match(vectorizer, X, q.text, q.tfidf_threshold)
           read == IF X.is_none THEN {gen.X} ELSE {gen.X, gen.vectorizer}
       IN q' = CASE o.kind = "hit" ->
                      [Goto("stage4_resolve", 4, read) EXCEPT !.idx = o.i]
                 [] o.kind = "raise" -> Finish(Raised(4), 4, read)
                 [] X.is_none -> Finish(ReturnNone(5), 5, read)
                 [] OTHER -> Finish(ReturnNone(5), 4, read)
    /\ UNCHANGED <<intents, pattern_to_intent, corpus, vectorizer, X, gen,
                   nloads, load, reload_response>>

\* Lines 120-125.
stage4_resolve ==
    /\ q.pc = "stage4_resolve"
    /\ LET o == resolve(intents.items, pattern_to_intent, q.idx)
           read == {gen.pattern_to_intent, gen.intents}
       IN q' = CASE o.kind = "hit" ->
                      Finish(ReturnIntent(intents.items[o.i], 4), 4, read)
                 [] o.kind = "raise" -> Finish(Raised(4), 4, read)
                 [] OTHER -> Finish(ReturnNone(5), 4, read)
    /\ UNCHANGED <<intents, pattern_to_intent, corpus, vectorizer, X, gen,
                   nloads, load, reload_response>>

\* Lines 132-134: the body chat answers with; an exception in find_intent
\* ends the request as a server error.
Fallback == "Sorry, I didn't get it. Please type an appropriate message."

chat_response(result) ==
    CASE result.kind = "intent" -> [status |-> 200, response |-> result.it.response]
      [] result.kind = "none" -> [status |-> 200, response |-> Fallback]
      [] OTHER -> [status |-> 500, response |-> ""]

\* find_intent has returned or raised; the request is answered.
find_intent_return ==
    /\ q.pc = "done"
    /\ q' = IdleQuery
    /\ UNCHANGED <<intents, pattern_to_intent, corpus, vectorizer, X, gen,
                   nloads, load, reload_response>>

\* Lines 78-125 as one function of the store, the text and the thresholds:
\* find_intent_4 is lines 113-125, find_intent_3 lines 100-125,
\* find_intent_2 lines 89-125, find_intent_1 lines 83-125.
find_intent_4(items, p2i, vec, x, text, tfidf_threshold) ==
    LET o == tfidf_match(vec, x, text, tfidf_threshold)
    IN CASE o.kind = "hit" ->
              LET r == resolve(items, p2i, o.i)
              IN CASE r.kind = "hit" -> ReturnIntent(items[r.i], 4)
                   [] r.kind = "raise" -> Raised(4)
                   [] OTHER -> ReturnNone(5)
         [] o.kind = "raise" -> Raised(4)
         [] OTHER -> ReturnNone(5)

find_intent_3(items, p2i, vec, x, text, fuzzy_threshold, tfidf_threshold) ==
    LET o == fuzzy_match(items, text, fuzzy_threshold)
    IN CASE o.kind = "hit" ->
              LET r == resolve(items, p2i, o.i)
              IN CASE r.kind = "hit" -> ReturnIntent(items[r.i], 3)
                   [] r.kind = "raise" -> Raised(3)
                   [] OTHER -> find_intent_4(items, p2i, vec, x, text,
                                             tfidf_threshold)
         [] o.kind = "raise" -> Raised(3)
         [] OTHER -> find_intent_4(items, p2i, vec, x, text, tfidf_threshold)

find_intent_2(items, p2i, vec, x, text, fuzzy_threshold, tfidf_threshold) ==
    LET o == regex_match(items, text, 1)
    IN CASE o.kind = "hit" -> ReturnIntent(items[o.i], 2)
         [] o.kind = "raise" -> Raised(2)
         [] OTHER -> find_intent_3(items, p2i, vec, x, text, fuzzy_threshold,
                                   tfidf_threshold)

find_intent_1(items, p2i, vec, x, text, fuzzy_threshold, tfidf_threshold) ==
    LET o == substring_match(items, text, 1)
    IN CASE o.kind = "hit" -> ReturnIntent(items[o.i], 1)
         [] o.kind = "raise" -> Raised(1)
         [] OTHER -> find_intent_2(items, p2i, vec, x, text, fuzzy_threshold,
                                   tfidf_threshold)

find_intent(ints, p2i, vec, x, user_text, fuzzy_threshold, tfidf_threshold) ==
    IF normalize(user_text) = <<>>
    THEN ReturnNone(0)
    ELSE find_intent_1(ints.items, p2i, vec, x, normalize(user_text),
                       fuzzy_threshold, tfidf_threshold)

\* ------------------------------------------------------ specifications

LoadStep ==
    \/ reload_route_call
    \/ load_open
    \/ load_compile
    \/ load_reset_p2i
    \/ load_reset_corpus
    \/ load_corpus
    \/ load_append_p2i
    \/ load_vectorizer
    \/ load_fit
    \/ load_assign_X
    \/ reload_route_return

QueryStep ==
    \/ find_intent_call
    \/ stage1
    \/ stage2
    \/ stage3
    \/ stage3_resolve
    \/ stage4
    \/ stage4_resolve
    \/ find_intent_return

\* Threaded serving: a reload and a query interleave statement by statement.
Next == LoadStep \/ QueryStep

Spec == Init /\ [][Next]_vars

\* One request at a time: a request is served to its end before the next.
NextSeq ==
    \/ q.pc = "idle" /\ LoadStep
    \/ load.pc = "idle" /\ QueryStep

SpecSeq == Init /\ [][NextSeq]_vars

\* ================================================================ claims

Globals == {"intents", "pattern_to_intent", "corpus", "vectorizer", "X"}

\* No reload is running and the last one, if any, answered {"ok": true}.
StoreOk == load.pc = "idle" /\ reload_response # "error"

\* C1 (as claimed): a query that runs while a reload runs reads all its
\* globals from one load: when find_intent ends, started on a store no
\* failed reload had touched, with no reload having failed since and the
\* file of the running reload being one that loads, the globals it read
\* were all bound by the same load.
C1_QueryReadsOneLoad ==
    (/\ q.pc = "done"
     /\ q.store_ok
     /\ reload_response # "error"
     /\ load.pc # "raised"
     /\ Loaded(load.raw).ok)
        => Cardinality(q.reads) <= 1

\* C2 (as claimed): a reload that fails leaves the five globals as the last
\* successful load bound them: once reload_route has answered an error, no
\* global is one that the failed load bound.
C2_FailedReloadKeepsStore ==
    (load.pc = "idle" /\ reload_response = "error")
        => \A g \in Globals : gen[g] # nloads

\* C3: reload_route answers {"ok": true} exactly when load_intents ran to
\* its end, and then every global is one that this reload bound; a load
\* that raised is answered as an error.
C3_ReloadOkIffRebuilt ==
    (load.pc = "idle" /\ nloads > 0)
        => /\ reload_response \in {"ok", "error"}
           /\ reload_response = "ok" <=> gen.X = nloads
           /\ reload_response = "ok" => \A g \in Globals : gen[g] = nloads

\* C3 witness: a reload that raised after it had rebound the corpus was
\* answered as an error.
C3_Witness ==
    /\ load.pc = "idle"
    /\ reload_response = "error"
    /\ gen.corpus = nloads
    /\ nloads > 0

\* A str pattern of `it`, lower-cased, occurs in text.
PatternIn(it, text) ==
    \E k \in DOMAIN it.patterns :
        it.patterns[k].is_str /\ Contains(lower(it.patterns[k].v), text)

\* A compiled rule of `it` has a hit in text.
RuleMatches(it, text) ==
    \E r \in Range(it._regex) \cup Range(it._regex_list) : search(r, text)

\* Some str pattern of the store scores at least fuzzy_threshold.
FuzzyReaches(items, text, fuzzy_threshold) ==
    \E i \in DOMAIN items : \E k \in DOMAIN items[i].patterns :
        /\ items[i].patterns[k].is_str
        /\ LET sc == token_set_ratio(text, items[i].patterns[k].v)
           IN 100 * sc[1] >= fuzzy_threshold * sc[2]

Least(S) == CHOOSE i \in S : \A k \in S : i <= k

WithPattern == {i \in DOMAIN intents.items : PatternIn(intents.items[i], q.text)}
WithRule == {i \in DOMAIN intents.items : RuleMatches(intents.items[i], q.text)}

\* C4: the stages run in the order 1 > 2 > 3 > 4 and the first success
\* wins.  On a loaded store, for a non-empty text: if a pattern occurs in
\* the text the result is the first such intent, by stage 1, and no later
\* stage ran; else if a rule hits it is the first such intent, by stage 2,
\* and stages 3 and 4 did not run; else if a fuzzy score reaches the
\* threshold the result comes from stage 3 and stage 4 did not run.
C4_StrictPriority ==
    (q.pc = "done" /\ StoreOk /\ q.text # <<>>)
        => /\ WithPattern # {}
                => /\ q.result = ReturnIntent(intents.items[Least(WithPattern)], 1)
                   /\ q.stages = {1}
           /\ (WithPattern = {} /\ WithRule # {})
                => /\ q.result = ReturnIntent(intents.items[Least(WithRule)], 2)
                   /\ q.stages = {1, 2}
           /\ (/\ WithPattern = {}
               /\ WithRule = {}
               /\ FuzzyReaches(intents.items, q.text, q.fuzzy_threshold))
                => /\ q.result.kind = "intent"
                   /\ q.result.stage = 3
                   /\ q.stages = {1, 2, 3}

\* C4 witness: stage 1 won although a rule hits in another intent and a
\* fuzzy score reaches the threshold.
C4_Witness ==
    /\ q.pc = "done"
    /\ StoreOk
    /\ WithPattern # {}
    /\ WithRule # {}
    /\ Least(WithRule) # Least(WithPattern)
    /\ FuzzyReaches(intents.items, q.text, q.fuzzy_threshold)
    /\ q.result = ReturnIntent(intents.items[Least(WithPattern)], 1)

\* C5 (as claimed): submitting the exact text of a str pattern of an
\* intent, in any casing, yields that intent by stage 1.
C5_ExactPatternYieldsOwner ==
    (q.pc = "done" /\ StoreOk /\ ~q.user_text.is_none)
        => \A i \in DOMAIN intents.items :
               \A k \in DOMAIN intents.items[i].patterns :
                   LET p == intents.items[i].patterns[k]
                   IN (p.is_str /\ lower(q.user_text.v) = lower(p.v))
                          => q.result = ReturnIntent(intents.items[i], 1)

\* C5 (amended): submitting the exact text of a str pattern that is not
\* empty and has no blank at either end, in any casing, yields by stage 1,
\* whatever the thresholds, the first intent in store order one of whose
\* patterns occurs in the text: that intent, unless an earlier one has such
\* a pattern.
C5_ExactPatternStage1 ==
    (q.pc = "done" /\ StoreOk /\ ~q.user_text.is_none)
        => \A i \in DOMAIN intents.items :
               \A k \in DOMAIN intents.items[i].patterns :
                   LET p == intents.items[i].patterns[k]
                   IN (/\ p.is_str
                       /\ lower(q.user_text.v) = lower(p.v)
                       /\ p.v # <<>>
                       /\ strip(p.v) = p.v)
                          => /\ q.result =
                                   ReturnIntent(intents.items[Least(WithPattern)], 1)
                             /\ (\A h \in 1..(i - 1) : h \notin WithPattern)
                                   => q.result.it = intents.items[i]

\* C5 witness: a pattern submitted in another casing, with thresholds that
\* are not the defaults, gave its intent by stage 1.
C5_Witness ==
    /\ q.pc = "done"
    /\ StoreOk
    /\ ~q.user_text.is_none
    /\ q.fuzzy_threshold # 70
    /\ \E i \in DOMAIN intents.items :
          \E k \in DOMAIN intents.items[i].patterns :
              LET p == intents.items[i].patterns[k]
              IN /\ p.is_str
                 /\ lower(q.user_text.v) = lower(p.v)
                 /\ q.user_text.v # p.v
                 /\ q.result = ReturnIntent(intents.items[i], 1)

\* C6 (as claimed): a text that a rule of an intent matches and that
\* contains no literal pattern of any intent yields that intent by stage 2.
C6_RuleOnlyYieldsOwner ==
    (q.pc = "done" /\ StoreOk /\ WithPattern = {})
        => \A i \in WithRule : q.result = ReturnIntent(intents.items[i], 2)

\* C6 (amended): a text whose normalised form is not empty, is matched by a
\* rule of an intent and contains no literal pattern of any intent yields
\* by stage 2 the first intent in store order one of whose rules matches:
\* that intent, unless a rule of an earlier one matches.
C6_RuleOnlyStage2 ==
    (q.pc = "done" /\ StoreOk /\ WithPattern = {} /\ q.text # <<>>)
        => \A i \in WithRule :
               /\ q.result = ReturnIntent(intents.items[Least(WithRule)], 2)
               /\ (\A h \in 1..(i - 1) : h \notin WithRule)
                     => q.result.it = intents.items[i]

\* C6 witness: the second intent was returned by stage 2 on a rule of its
\* rule list.
C6_Witness ==
    /\ q.pc = "done"
    /\ StoreOk
    /\ WithPattern = {}
    /\ 2 \in WithRule
    /\ intents.items[2]._regex_list # <<>>
    /\ q.result = ReturnIntent(intents.items[2], 2)

\* user_text is None, empty or blanks only.
IsBlank(u) == u.is_none \/ \A i \in DOMAIN u.v : u.v[i] = " "

\* C7: None, empty or blank input yields None with no stage consulted and
\* no global read, whatever the store holds.
C7_BlankIsNoMatch ==
    (q.pc = "done" /\ IsBlank(q.user_text))
        => /\ q.result = ReturnNone(0)
           /\ q.stages = {}
           /\ q.reads = {}

\* C7 witness: a blank text on a store with an empty-string pattern.
C7_Witness ==
    /\ q.pc = "done"
    /\ q.user_text = Text(<<" ">>)
    /\ \E i \in DOMAIN intents.items :
          \E k \in DOMAIN intents.items[i].patterns :
              intents.items[i].patterns[k] = Str(<<>>)
    /\ q.result = ReturnNone(0)

\* The file decodes to intent dicts none of which has a str pattern.
EmptyCorpusFile(f) ==
    /\ f.readable
    /\ \A i \in DOMAIN f.value.items :
          /\ f.value.items[i].is_dict
          /\ f.value.items[i].patterns_kind # "null"
          /\ \A k \in DOMAIN f.value.items[i].patterns :
                ~f.value.items[i].patterns[k].is_str

\* C8: when no intent of the file has a str pattern, the load does not
\* raise and ends with an empty corpus and X = None; a query then never
\* raises, never runs the vector stage, and returns None unless stage 2
\* returns an intent.
C8_EmptyCorpusSkipsVector ==
    /\ load.pc = "raised" => ~EmptyCorpusFile(load.raw)
    /\ (load.pc = "idle" /\ EmptyCorpusFile(load.raw))
          => /\ reload_response # "error"
             /\ corpus = <<>>
             /\ pattern_to_intent = <<>>
             /\ X.is_none
             /\ q.pc = "done"
                   => /\ q.result.kind \in {"none", "intent"}
                      /\ q.result.kind = "intent" => q.result.stage = 2
                      /\ 4 \notin q.stages

\* C8 witness: after a reload of a file without str patterns, a query went
\* through stages 1 to 3, skipped stage 4 and returned None.
C8_Witness ==
    /\ load.pc = "idle"
    /\ EmptyCorpusFile(load.raw)
    /\ reload_response = "ok"
    /\ q.pc = "done"
    /\ q.stages = {1, 2, 3, 5}
    /\ q.result = ReturnNone(5)

\* C9: a load is a function of the file alone.  Whenever the store is
\* loaded, the five globals are what one load of the file gives from
\* scratch, whatever was loaded and asked before, and a finished query
\* returned what find_intent gives on that store; so loading the same file
\* again gives the same results for every text and thresholds.
C9_LoadIdempotent ==
    StoreOk
        => /\ intents = Loaded(load.raw).intents
           /\ pattern_to_intent = Loaded(load.raw).pattern_to_intent
           /\ corpus = Loaded(load.raw).corpus
           /\ vectorizer = Loaded(load.raw).vectorizer
           /\ X = Loaded(load.raw).X
           /\ q.pc = "done"
                 => q.result = find_intent(Loaded(load.raw).intents,
                                           Loaded(load.raw).pattern_to_intent,
                                           Loaded(load.raw).vectorizer,
                                           Loaded(load.raw).X,
                                           q.user_text, q.fuzzy_threshold,
                                           q.tfidf_threshold)

\* C9 witness: the file that was loaded has been loaded again, it has str
\* patterns, and a query on the second store returned an intent.
C9_Witness ==
    /\ StoreOk
    /\ load.same
    /\ reload_response = "ok"
    /\ corpus # <<>>
    /\ q.pc = "done"
    /\ q.result.kind = "intent"
    /\ q.result.stage \in {3, 4}

\* C10: a step of find_intent leaves intents, pattern_to_intent, corpus,
\* vectorizer and X as they were and, while the call runs, its thresholds
\* too; and what a call returns is find_intent of the store as it is now,
\* the text and the thresholds.
C10_QueryHasNoSideEffect ==
    /\ [][q' # q =>
             /\ UNCHANGED <<intents, pattern_to_intent, corpus, vectorizer, X>>
             /\ (q.pc # "idle" /\ q'.pc # "idle")
                   => /\ q'.fuzzy_threshold = q.fuzzy_threshold
                      /\ q'.tfidf_threshold = q.tfidf_threshold
                      /\ q'.user_text = q.user_text]_vars
    /\ [](q.pc = "done"
            => q.result = find_intent(intents, pattern_to_intent, vectorizer,
                                      X, q.user_text, q.fuzzy_threshold,
                                      q.tfidf_threshold))

\* C10 witness: a query that ran all four stages returned an intent.
C10_Witness ==
    /\ q.pc = "done"
    /\ q.result.kind = "intent"
    /\ q.result.stage = 4
    /\ q.stages = {1, 2, 3, 4}

\* C11 (as claimed): whatever loads succeeded or failed before, a query
\* with a str, empty or absent text does not end in an error: chat answers
\* with the response of the intent found, or with the fallback message
\* when none was found.
C11_QueryNeverRaises ==
    q.pc = "done"
        => /\ chat_response(q.result).status = 200
           /\ \/ chat_response(q.result).response = Fallback
              \/ \E i \in DOMAIN intents.items :
                     /\ q.result.it = intents.items[i]
                     /\ chat_response(q.result).response = intents.items[i].response

\* C12 (as claimed): whenever no load is running, corpus and
\* pattern_to_intent have the same length, corpus[i] is the lower-cased
\* i-th str pattern of intents in intent order then pattern order, and
\* pattern_to_intent[i] is the name of the intent that has it.
C12_CorpusAligned ==
    load.pc = "idle"
        => /\ Len(corpus) = Len(pattern_to_intent)
           /\ Len(corpus) = Len(flat_patterns(intents.items))
           /\ \A i \in DOMAIN corpus :
                 /\ corpus[i] = lower(flat_patterns(intents.items)[i].p)
                 /\ pattern_to_intent[i] = flat_patterns(intents.items)[i].intent

\* C13 (as claimed): whenever no load is running, X is None exactly when
\* corpus is empty, and otherwise vectorizer is the one fitted on corpus
\* and X is its matrix of corpus, one row per entry.
C13_ModelTrainedOnCorpus ==
    load.pc = "idle"
        => /\ X.is_none <=> corpus = <<>>
           /\ ~X.is_none
                 => /\ Len(X.rows) = Len(corpus)
                    /\ vectorizer.fitted
                    /\ vectorizer = fit(corpus)
                    /\ X = transform(vectorizer, corpus)

\* The intents named `name`, by position.
Named(name) == {i \in DOMAIN intents.items : intents.items[i].intent = name}

\* C14: when stage 3 or stage 4 returned an intent for the corpus index it
\* selected, that intent is the first record in store order whose name is
\* pattern_to_intent at that index, also when several records have the name.
C14_ResolvesFirstNamed ==
    (/\ q.pc = "done"
     /\ StoreOk
     /\ q.result.kind = "intent"
     /\ q.result.stage \in {3, 4})
        => /\ q.idx + 1 \in DOMAIN pattern_to_intent
           /\ Named(pattern_to_intent[q.idx + 1]) # {}
           /\ q.result.it =
                 intents.items[Least(Named(pattern_to_intent[q.idx + 1]))]

\* C14 witness: two records have the owner name, and the record stage 3
\* returned is the earlier one, which does not have the phrase that won.
C14_Witness ==
    /\ q.pc = "done"
    /\ StoreOk
    /\ q.result.kind = "intent"
    /\ q.result.stage = 3
    /\ Cardinality(Named(pattern_to_intent[q.idx + 1])) > 1
    /\ \A k \in DOMAIN q.result.it.patterns :
          q.result.it.patterns[k] # Str(all_patterns(intents.items)[q.idx + 1])

\* C15: stage 1 returns an intent exactly when some str pattern,
\* lower-cased, occurs in the normalised text, whatever else the text
\* holds; the intent is the earliest in store order with such a pattern,
\* and no later stage runs.
C15_FirstContainmentWins ==
    (q.pc = "done" /\ StoreOk /\ q.text # <<>>)
        => /\ q.result.stage = 1 <=> WithPattern # {}
           /\ WithPattern # {}
                 => /\ q.result.kind = "intent"
                    /\ q.stages = {1}
                    /\ \E i \in WithPattern :
                          /\ q.result.it = intents.items[i]
                          /\ \A h \in WithPattern : i <= h

\* C15 witness: stage 1 returned the first intent on a text with more in it
\* than the pattern, although a later intent has a longer pattern that the
\* text contains too.
C15_Witness ==
    /\ q.pc = "done"
    /\ StoreOk
    /\ q.result = ReturnIntent(intents.items[1], 1)
    /\ \A k \in DOMAIN intents.items[1].patterns :
          /\ intents.items[1].patterns[k].is_str
          /\ Len(intents.items[1].patterns[k].v) < Len(q.text)
    /\ \E h \in WithPattern : \E k \in DOMAIN intents.items[h].patterns :
          /\ h > 1
          /\ intents.items[h].patterns[k].is_str
          /\ Contains(lower(intents.items[h].patterns[k].v), q.text)
          /\ \A j \in DOMAIN intents.items[1].patterns :
                Len(intents.items[h].patterns[k].v)
                    > Len(intents.items[1].patterns[j].v)

\* The compiled rule `cre` has a hit in text at some position: each of its
\* characters is "." or equals, up to case, the character of text there.
HitAnywhere(cre, text) ==
    \E i \in 1..(Len(text) + 1) :
        /\ i + Len(cre) - 1 <= Len(text)
        /\ \A k \in 1..Len(cre) :
              \/ cre[k] = "."
              \/ lower(<<cre[k]>>) = lower(<<text[i + k - 1]>>)

\* The compiled rules of `it`: the single one and those of the list.
RulesOf(it) == Range(it._regex) \cup Range(it._regex_list)

WithHit ==
    {i \in DOMAIN intents.items :
        \E cre \in RulesOf(intents.items[i]) : HitAnywhere(cre, q.text)}

\* C16: stage 2 runs only when no pattern occurs in the text, and then
\* always; it returns the first intent in store order one of whose compiled
\* rules, the single one or one of the list, has a hit anywhere in the
\* normalised text, and returns nothing when no rule has one.
C16_FirstRuleHitWins ==
    (q.pc = "done" /\ StoreOk)
        => /\ 2 \in q.stages => WithPattern = {}
           /\ (q.text # <<>> /\ WithPattern = {})
                 => /\ 2 \in q.stages
                    /\ WithHit # {}
                          => q.result = ReturnIntent(intents.items[Least(WithHit)], 2)
                    /\ WithHit = {} => q.result.stage # 2

\* C16 witness: stage 2 returned an intent on a rule whose only hit is not
\* at the start of the text.
C16_Witness ==
    /\ q.pc = "done"
    /\ StoreOk
    /\ q.result.kind = "intent"
    /\ q.result.stage = 2
    /\ \A cre \in RulesOf(q.result.it) :
          HitAnywhere(cre, q.text) => ~HitAnywhere(cre, SubSeq(q.text, 1, Len(cre)))

\* The score of corpus[k] against text reaches fuzzy_threshold.
CorpusReaches(k, text, fuzzy_threshold) ==
    100 * token_set_ratio(text, corpus[k])[1]
        >= fuzzy_threshold * token_set_ratio(text, corpus[k])[2]

\* No entry of corpus scores higher against text than corpus[k].
BestOfCorpus(k, text) ==
    \A j \in DOMAIN corpus :
        ScoreGeq(token_set_ratio(text, corpus[k]), token_set_ratio(text, corpus[j]))

\* C17 (as claimed): when no pattern occurs in the text and no rule hits,
\* if the best score over corpus is at least fuzzy_threshold, find_intent
\* returns by stage 3 the first intent named as the owner of a best entry
\* of corpus, and stage 4 does not run; if the best score over corpus is
\* below fuzzy_threshold, stage 3 returns nothing and stage 4 is next.
C17_BestOverCorpusDecides ==
    (q.pc = "done" /\ StoreOk /\ q.text # <<>> /\ WithPattern = {} /\ WithRule = {})
        => /\ (\E k \in DOMAIN corpus : CorpusReaches(k, q.text, q.fuzzy_threshold))
                 => /\ q.result.kind = "intent"
                    /\ q.result.stage = 3
                    /\ q.stages = {1, 2, 3}
                    /\ \E k \in DOMAIN corpus :
                          /\ BestOfCorpus(k, q.text)
                          /\ q.result.it =
                                intents.items[Least(Named(pattern_to_intent[k]))]
           /\ (\A k \in DOMAIN corpus : ~CorpusReaches(k, q.text, q.fuzzy_threshold))
                 => q.result.stage \in {4, 5}

\* C17, the part that holds, with the scores taken over the patterns as
\* stored: when no pattern occurs in the text and no rule hits, stage 3 runs;
\* if some phrase scores at least fuzzy_threshold, find_intent returns by
\* stage 3 the intent resolved from the owner name of the best phrase and
\* stage 4 does not run; if every phrase scores below it, the call goes on
\* to stage 4.
C17_FuzzyThresholdInclusive ==
    (q.pc = "done" /\ StoreOk /\ q.text # <<>> /\ WithPattern = {} /\ WithRule = {})
        => /\ 3 \in q.stages
           /\ FuzzyReaches(intents.items, q.text, q.fuzzy_threshold)
                 => /\ q.result.kind = "intent"
                    /\ q.result.stage = 3
                    /\ q.stages = {1, 2, 3}
                    /\ q.result.it.intent = pattern_to_intent[q.idx + 1]
                    /\ \A k \in DOMAIN all_patterns(intents.items) :
                          ScoreGeq(token_set_ratio(q.text,
                                       all_patterns(intents.items)[q.idx + 1]),
                                   token_set_ratio(q.text,
                                       all_patterns(intents.items)[k]))
           /\ ~FuzzyReaches(intents.items, q.text, q.fuzzy_threshold)
                 => /\ q.result.stage \in {4, 5}
                    /\ q.stages \cap {4, 5} # {}

\* C17 witness: the best score equals fuzzy_threshold and stage 3 returned.
C17_Witness ==
    /\ q.pc = "done"
    /\ StoreOk
    /\ q.result.kind = "intent"
    /\ q.result.stage = 3
    /\ 100 * token_set_ratio(q.text, all_patterns(intents.items)[q.idx + 1])[1]
          = q.fuzzy_threshold
              * token_set_ratio(q.text, all_patterns(intents.items)[q.idx + 1])[2]

\* The rule string compiles.
Compiles(pattern) == \A i \in DOMAIN pattern : pattern[i] # "("

\* The dict `it` with the rules that do not compile taken out of "regex".
WithoutBadRulesOf(it) ==
    CASE it.regex_kind = "str" /\ ~Compiles(it.regex[1]) ->
            [it EXCEPT !.regex_kind = "absent", !.regex = <<>>]
      [] it.regex_kind = "list" ->
            [it EXCEPT !.regex = SelectSeq(it.regex, Compiles)]
      [] OTHER -> it

\* The file with the rules that do not compile taken out.
WithoutBadRules(f) ==
    [f EXCEPT !.value.items =
        [i \in DOMAIN f.value.items |->
            IF f.value.items[i].is_dict
            THEN WithoutBadRulesOf(f.value.items[i])
            ELSE f.value.items[i]]]

\* C18: a rule that does not compile does not make the load raise; a
\* single rule that does not compile leaves its intent without matcher, a
\* rule list keeps the rules that compile, in order; each intent's
\* matchers, name and patterns, and corpus, pattern_to_intent, vectorizer
\* and X are those of a load of the file without the rules that do not
\* compile.
C18_BadRuleIsOmitted ==
    /\ load.pc = "raised" => ~Loaded(WithoutBadRules(load.raw)).ok
    /\ StoreOk
          => /\ Loaded(WithoutBadRules(load.raw)).ok
             /\ \A i \in DOMAIN intents.items :
                   /\ (/\ load.raw.value.items[i].regex_kind = "str"
                       /\ ~Compiles(load.raw.value.items[i].regex[1]))
                         => RulesOf(intents.items[i]) = {}
                   /\ load.raw.value.items[i].regex_kind = "list"
                         => /\ intents.items[i]._regex_list =
                                  SelectSeq(load.raw.value.items[i].regex, Compiles)
                            /\ intents.items[i]._regex = <<>>
                   /\ intents.items[i]._regex =
                         Loaded(WithoutBadRules(load.raw)).intents.items[i]._regex
                   /\ intents.items[i]._regex_list =
                         Loaded(WithoutBadRules(load.raw)).intents.items[i]._regex_list
                   /\ intents.items[i].intent = load.raw.value.items[i].intent
                   /\ intents.items[i].patterns = load.raw.value.items[i].patterns
             /\ corpus = Loaded(WithoutBadRules(load.raw)).corpus
             /\ pattern_to_intent = Loaded(WithoutBadRules(load.raw)).pattern_to_intent
             /\ vectorizer = Loaded(WithoutBadRules(load.raw)).vectorizer
             /\ X = Loaded(WithoutBadRules(load.raw)).X

\* C18 witness: a reload has succeeded on a file with a rule list whose
\* first rule does not compile and whose second does, and with patterns.
C18_Witness ==
    /\ StoreOk
    /\ reload_response = "ok"
    /\ corpus # <<>>
    /\ \E i \in DOMAIN intents.items :
          /\ intents.items[i].regex_kind = "list"
          /\ Len(intents.items[i].regex) = 2
          /\ ~Compiles(intents.items[i].regex[1])
          /\ intents.items[i]._regex_list = <<intents.items[i].regex[2]>>

\* pattern_to_intent has, position by position, the owner names of the
\* list that line 101 builds from intents.
OwnersAligned ==
    /\ Len(all_patterns(intents.items)) = Len(pattern_to_intent)
    /\ \A k \in DOMAIN pattern_to_intent :
          pattern_to_intent[k] = flat_patterns(intents.items)[k].intent

\* C19 (as claimed): whenever a query is about to run stage 3, the list it
\* builds from intents has the length and the order of pattern_to_intent;
\* and when stage 3 has picked its best index, the index is one of
\* pattern_to_intent.  (No load has failed, and the file of the load that
\* is running, if any, is one that loads.)
C19_FuzzyIndexValid ==
    (/\ q.store_ok
     /\ reload_response # "error"
     /\ load.pc # "raised"
     /\ Loaded(load.raw).ok)
        => /\ q.pc = "stage3" => OwnersAligned
           /\ q.pc = "stage3_resolve" => q.idx + 1 \in DOMAIN pattern_to_intent

====
